---- MODULE Spec2Model ----
(***************************************************************************)
(* Model of student_database.py: the StudentDatabase data-access layer     *)
(* (one psycopg2 connection and cursor over the students table) and the    *)
(* interactive menu loop of main().                                        *)
(*                                                                         *)
(* The store is a set of rows.  `committed` is what the server has made    *)
(* durable, `working` is what the connection's current transaction sees.   *)
(* Every statement, commit and rollback may meet a driver-reported error,  *)
(* drawn from a bounded budget of faults.  Standard input is taken to be   *)
(* an interactive terminal: every prompt is answered with a line.          *)
(***************************************************************************)
EXTENDS Integers, Sequences, FiniteSets, TLC

VARIABLES
    pc,         \* position of main(): start, menu, pause, break, raised,
                \* returned
    conn,       \* connection: none, open, broken (server gone), closed
    txn,        \* transaction status of the connection: idle, open, aborted
    committed,  \* rows of students the server has committed
    working,    \* rows of students as seen inside the current transaction
    seq,        \* last value handed out for student_id
    faults,     \* driver errors the environment may still inject
    closeCalls, \* number of calls of StudentDatabase.close()
    nCreated,   \* addStudent calls that returned an identifier
    nDeleted,   \* deleteStudent calls that returned True
    last        \* what the last pass through the loop body did

vars == <<pc, conn, txn, committed, working, seq, faults, closeCalls,
          nCreated, nDeleted, last>>

----------------------------------------------------------------------------
(* Bounds *)

MaxSeq == 3
MaxFaults == 2

----------------------------------------------------------------------------
(* Input alphabets *)

FirstNames == {"Ada", "Bob"}
LastNames == {"Lovelace"}
Emails == {"ada@x.com", "ada@new.com"}

\* An entered date: the separator typed and the three numeric fields.
DateTexts ==
    { [sep |-> "-", y |-> 1990, m |-> 1, d |-> 1],
      [sep |-> "-", y |-> 1990, m |-> 2, d |-> 30],
      [sep |-> "/", y |-> 1990, m |-> 1, d |-> 1] }

\* An entered identifier: a sequence of characters.
IdTexts == { <<"1">>, <<"2">>, <<"3">>, <<"1", "x">>, <<>> }

ConfirmTexts == {"yes", "YES", "no", "y"}

ChoiceTexts == {"1", "2", "3", "4", "5", "9"}

Faults == {"ok", "stmt", "conn"}
CommitFaults == {"ok", "stmt", "conn", "ack_lost"}
RollbackFaults == {"ok", "conn"}

----------------------------------------------------------------------------
(* Local input checks of the shell *)

IsLeap(y) == (y % 4 = 0 /\ y % 100 # 0) \/ y % 400 = 0

DaysIn(y, m) ==
    IF m = 2 THEN (IF IsLeap(y) THEN 29 ELSE 28)
    ELSE IF m \in {4, 6, 9, 11} THEN 30 ELSE 31

\* datetime.strptime(text, '%Y-%m-%d') does not raise ValueError
StrptimeOk(t) ==
    /\ t.sep = "-"
    /\ t.y \in 1..9999
    /\ t.m \in 1..12
    /\ t.d \in 1..DaysIn(t.y, t.m)

\* the calendar date the store keeps for an accepted text
PgDate(t) == <<t.y, t.m, t.d>>

DigitValue(ch) ==
    CASE ch = "0" -> 0 [] ch = "1" -> 1 [] ch = "2" -> 2 [] ch = "3" -> 3
      [] ch = "4" -> 4 [] ch = "5" -> 5 [] ch = "6" -> 6 [] ch = "7" -> 7
      [] ch = "8" -> 8 [] ch = "9" -> 9 [] OTHER -> -1

\* int(text) does not raise ValueError
IntParses(s) == Len(s) > 0 /\ \A i \in 1..Len(s) : DigitValue(s[i]) >= 0

RECURSIVE IntValue(_)
IntValue(s) ==
    IF Len(s) = 0 THEN 0
    ELSE 10 * IntValue(SubSeq(s, 1, Len(s) - 1)) + DigitValue(s[Len(s)])

\* input(...).strip().lower()
StripLower(s) == IF s = "YES" THEN "yes" ELSE s

\* faulty variant: the delete goes ahead whatever the answer
DeleteConfirmed_Always(s) == TRUE

DeleteConfirmed(s) == StripLower(s) = "yes"

----------------------------------------------------------------------------
(* The store as the driver presents it *)

Row(id, first, lastn, email, date) ==
    [id |-> id, first |-> first, last |-> lastn, email |-> email, date |-> date]

RowWithId(rows, id) == { r \in rows : r.id = id }

\* the unique constraint on email: some other row already has this email
UniqueViolation(rows, email, selfId) ==
    \E r \in rows : r.email = email /\ r.id # selfId

\* the identifier the store generates for the next inserted row
NextStudentId(s) == s + 1

MinId(rows) == CHOOSE i \in { r.id : r \in rows } : \A r \in rows : i <= r.id

MaxId(rows) == CHOOSE i \in { r.id : r \in rows } : \A r \in rows : i >= r.id

\* faulty variant: ORDER BY student_id DESC
RECURSIVE OrderByStudentId_Desc(_)
OrderByStudentId_Desc(rows) ==
    IF rows = {} THEN <<>>
    ELSE LET r0 == CHOOSE r \in rows : r.id = MaxId(rows)
         IN <<r0>> \o OrderByStudentId_Desc(rows \ {r0})

\* ORDER BY student_id
RECURSIVE OrderByStudentId(_)
OrderByStudentId(rows) ==
    IF rows = {} THEN <<>>
    ELSE LET first == { r \in rows : r.id = MinId(rows) }
             r0 == CHOOSE r \in first : TRUE
         IN <<r0>> \o OrderByStudentId(rows \ {r0})

Ev(op, ok) == [op |-> op, ok |-> ok]

\* The running call: the connection and store, what the cursor holds, the
\* calls made on the driver so far, and whether an Error is being raised.
Call(cn, tx, cm, wk, sq) ==
    [conn |-> cn, txn |-> tx, committed |-> cm, working |-> wk, seq |-> sq,
     fetched |-> {}, rowcount |-> 0, trace |-> <<>>, raised |-> FALSE,
     injected |-> 0, retId |-> <<>>, retOk |-> FALSE, rows |-> <<>>]

Raise(c, op) == [c EXCEPT !.raised = TRUE, !.trace = Append(@, Ev(op, FALSE))]

Injected(c) == [c EXCEPT !.injected = @ + 1]

\* an except clause has caught the Error
Caught(c) == [c EXCEPT !.raised = FALSE]

\* cursor.execute(stmt): the cases in which the statement never runs
\* (connection gone, connection lost now, transaction already aborted,
\* statement-level error) and otherwise the statement's own effect.
Execute(c, op, fault, effect) ==
    IF c.conn # "open" THEN Raise(c, op)
    ELSE IF fault = "conn"
        THEN Injected(Raise([c EXCEPT !.conn = "broken", !.txn = "idle",
                                      !.working = c.committed], op))
    ELSE IF c.txn = "aborted" THEN Raise(c, op)
    ELSE IF fault = "stmt" THEN Injected(Raise([c EXCEPT !.txn = "aborted"], op))
    ELSE effect

Done(c, op) == [c EXCEPT !.txn = "open", !.trace = Append(@, Ev(op, TRUE))]

\* SELECT * FROM students ORDER BY student_id
SelectAll(c, fault) ==
    Execute(c, "read", fault, [Done(c, "read") EXCEPT !.fetched = c.working])

\* SELECT first_name, last_name, email FROM students WHERE student_id = %s
SelectById(c, id, fault) ==
    Execute(c, "read", fault,
            [Done(c, "read") EXCEPT !.fetched = RowWithId(c.working, id)])

\* faulty variant: INSERT ... ON CONFLICT (email) DO UPDATE ... RETURNING student_id
Insert_Upsert(c, first, lastn, email, date, fault) ==
    LET id == NextStudentId(c.seq)
        row == Row(id, first, lastn, email, date)
        old == { r \in c.working : r.email = email }
        new == { Row(r.id, first, lastn, email, date) : r \in old }
    IN Execute(c, "write", fault,
         IF old # {}
         THEN [Done(c, "write") EXCEPT !.working = (@ \ old) \cup new,
                                       !.seq = id,
                                       !.fetched = new,
                                       !.rowcount = 1]
         ELSE [Done(c, "write") EXCEPT !.working = @ \cup {row},
                                       !.seq = id,
                                       !.fetched = {row},
                                       !.rowcount = 1])

\* INSERT INTO students (...) VALUES (...) RETURNING student_id
Insert(c, first, lastn, email, date, fault) ==
    LET id == NextStudentId(c.seq)
        row == Row(id, first, lastn, email, date)
    IN Execute(c, "write", fault,
         IF UniqueViolation(c.working, email, id)
         THEN Raise([c EXCEPT !.txn = "aborted", !.seq = id], "write")
         ELSE [Done(c, "write") EXCEPT !.working = @ \cup {row},
                                       !.seq = id,
                                       !.fetched = {row},
                                       !.rowcount = 1])

\* UPDATE students SET email = %s WHERE student_id = %s
Update(c, id, email, fault) ==
    LET hit == RowWithId(c.working, id)
    IN Execute(c, "write", fault,
         IF hit # {} /\ UniqueViolation(c.working, email, id)
         THEN Raise([c EXCEPT !.txn = "aborted"], "write")
         ELSE [Done(c, "write") EXCEPT
                 !.working = (@ \ hit) \cup
                             { [r EXCEPT !.email = email] : r \in hit },
                 !.rowcount = Cardinality(hit)])

\* DELETE FROM students WHERE student_id = %s
Delete(c, id, fault) ==
    LET hit == RowWithId(c.working, id)
    IN Execute(c, "write", fault,
         [Done(c, "write") EXCEPT !.working = @ \ hit,
                                  !.rowcount = Cardinality(hit)])

\* connection.commit()
Commit(c, fault) ==
    IF c.conn # "open" THEN Raise(c, "commit")
    ELSE IF fault = "conn"
        THEN Injected(Raise([c EXCEPT !.conn = "broken", !.txn = "idle",
                                      !.working = c.committed], "commit"))
    ELSE IF fault = "ack_lost"
        THEN Injected(Raise([c EXCEPT !.conn = "broken", !.txn = "idle",
                                      !.committed = c.working], "commit"))
    ELSE IF c.txn = "aborted"
        THEN [c EXCEPT !.txn = "idle", !.working = c.committed,
                       !.trace = Append(@, Ev("commit", TRUE))]
    ELSE IF fault = "stmt"
        THEN Injected(Raise([c EXCEPT !.txn = "idle",
                                      !.working = c.committed], "commit"))
    ELSE [c EXCEPT !.txn = "idle", !.committed = c.working,
                   !.trace = Append(@, Ev("commit", TRUE))]

\* connection.rollback()
Rollback(c, fault) ==
    IF c.conn # "open" THEN Raise(c, "rollback")
    ELSE IF fault = "conn"
        THEN Injected(Raise([c EXCEPT !.conn = "broken", !.txn = "idle",
                                      !.working = c.committed], "rollback"))
    ELSE [c EXCEPT !.txn = "idle", !.working = c.committed,
                   !.trace = Append(@, Ev("rollback", TRUE))]

----------------------------------------------------------------------------
(* StudentDatabase: the data-access methods.  f gives the outcome the      *)
(* environment has in store for the read, the write, the commit and the    *)
(* rollback of the call.                                                   *)

FaultPlans ==
    [read : Faults, write : Faults, commit : CommitFaults,
     rollback : RollbackFaults]

Planned(f) ==
    (IF f.read = "ok" THEN 0 ELSE 1) + (IF f.write = "ok" THEN 0 ELSE 1)
    + (IF f.commit = "ok" THEN 0 ELSE 1) + (IF f.rollback = "ok" THEN 0 ELSE 1)

\* getAllStudents: try body, lines 65-91
getAllStudentsTry(c, f) ==
    LET c1 == SelectAll(c, f.read)
    IN IF c1.raised THEN c1
       ELSE [c1 EXCEPT !.rows = OrderByStudentId(c1.fetched)]

\* getAllStudents: except Error, lines 93-95 (prints, returns [])
getAllStudentsExcept(c, f) == [Caught(c) EXCEPT !.rows = <<>>]

getAllStudents(c, f) ==
    LET t == getAllStudentsTry(c, f)
    IN IF t.raised THEN getAllStudentsExcept(t, f) ELSE t

\* faulty variant: the commit after the INSERT is forgotten
addStudentTry_NoCommit(c, first, lastn, email, date, f) ==
    LET c1 == Insert(c, first, lastn, email, date, f.write)
    IN IF c1.raised THEN c1
       ELSE [c1 EXCEPT !.retId = <<(CHOOSE r \in c1.fetched : TRUE).id>>]

\* addStudent: try body, lines 110-130
addStudentTry(c, first, lastn, email, date, f) ==
    LET c1 == Insert(c, first, lastn, email, date, f.write)
    IN IF c1.raised THEN c1
       ELSE LET student_id == (CHOOSE r \in c1.fetched : TRUE).id
                c2 == Commit(c1, f.commit)
            IN IF c2.raised THEN c2
               ELSE [c2 EXCEPT !.retId = <<student_id>>]

\* addStudent: except Error, lines 132-136 (rollback, returns None)
addStudentExcept(c, f) ==
    [Rollback(Caught(c), f.rollback) EXCEPT !.retId = <<>>]

addStudent(c, first, lastn, email, date, f) ==
    LET t == addStudentTry(c, first, lastn, email, date, f)
    IN IF t.raised THEN addStudentExcept(t, f) ELSE t

\* faulty variant: the UPDATE is issued without looking at what the lookup found
updateStudentEmailTry_NoCheck(c, student_id, new_email, f) ==
    LET c1 == SelectById(c, student_id, f.read)
    IN IF c1.raised THEN c1
       ELSE LET c2 == Update(c1, student_id, new_email, f.write)
            IN IF c2.raised THEN c2
               ELSE LET c3 == Commit(c2, f.commit)
                    IN IF c3.raised THEN c3
                       ELSE [c3 EXCEPT !.retOk = (c3.rowcount > 0)]

\* updateStudentEmail: try body, lines 149-183
updateStudentEmailTry(c, student_id, new_email, f) ==
    LET c1 == SelectById(c, student_id, f.read)
    IN IF c1.raised THEN c1
       ELSE IF c1.fetched = {} THEN [c1 EXCEPT !.retOk = FALSE]
       ELSE LET c2 == Update(c1, student_id, new_email, f.write)
            IN IF c2.raised THEN c2
               ELSE LET c3 == Commit(c2, f.commit)
                    IN IF c3.raised THEN c3
                       ELSE [c3 EXCEPT !.retOk = (c3.rowcount > 0)]

\* faulty variant: the handler reports the error without rolling back
updateStudentEmailExcept_NoRollback(c, f) == [Caught(c) EXCEPT !.retOk = FALSE]

\* updateStudentEmail: except Error, lines 185-189 (rollback, returns False)
updateStudentEmailExcept(c, f) ==
    [Rollback(Caught(c), f.rollback) EXCEPT !.retOk = FALSE]

updateStudentEmail(c, student_id, new_email, f) ==
    LET t == updateStudentEmailTry(c, student_id, new_email, f)
    IN IF t.raised THEN updateStudentEmailExcept(t, f) ELSE t

\* deleteStudent: try body, lines 201-229
deleteStudentTry(c, student_id, f) ==
    LET c1 == SelectById(c, student_id, f.read)
    IN IF c1.raised THEN c1
       ELSE IF c1.fetched = {} THEN [c1 EXCEPT !.retOk = FALSE]
       ELSE LET c2 == Delete(c1, student_id, f.write)
            IN IF c2.raised THEN c2
               ELSE LET c3 == Commit(c2, f.commit)
                    IN IF c3.raised THEN c3
                       ELSE [c3 EXCEPT !.retOk = (c3.rowcount > 0)]

\* faulty variant: the handler reports the error without rolling back
deleteStudentExcept_NoRollback(c, f) == [Caught(c) EXCEPT !.retOk = FALSE]

\* deleteStudent: except Error, lines 231-235 (rollback, returns False)
deleteStudentExcept(c, f) ==
    [Rollback(Caught(c), f.rollback) EXCEPT !.retOk = FALSE]

deleteStudent(c, student_id, f) ==
    LET t == deleteStudentTry(c, student_id, f)
    IN IF t.raised THEN deleteStudentExcept(t, f) ELSE t

----------------------------------------------------------------------------
(* main(): the menu loop *)

NoDate == [sep |-> "", y |-> 0, m |-> 0, d |-> 0]

\* no pass through the loop body is under way
Idle ==
    [choice |-> "", op |-> "none", first |-> "", lastn |-> "",
     email |-> "", date |-> NoDate, idText |-> <<>>, confirm |-> "",
     retId |-> <<>>, retOk |-> FALSE, rows |-> <<>>, trace |-> <<>>,
     raised |-> FALSE, pre |-> {}]

\* a pass through the loop body that calls no data-access method
Pass(choice) == [Idle EXCEPT !.choice = choice, !.pre = committed]

Here == Call(conn, txn, committed, working, seq)

\* the data-access call c has ended: its effects and its outcome
Served(c, entry, op) ==
    /\ c.injected <= faults
    /\ faults' = faults - c.injected
    /\ conn' = c.conn
    /\ txn' = c.txn
    /\ committed' = c.committed
    /\ working' = c.working
    /\ seq' = c.seq
    /\ last' = [entry EXCEPT !.op = op, !.retId = c.retId, !.retOk = c.retOk,
                             !.rows = c.rows, !.trace = c.trace,
                             !.raised = c.raised]
    /\ pc' = IF c.raised THEN "raised" ELSE "pause"
    /\ nCreated' = IF op = "add" /\ c.retId # <<>> THEN nCreated + 1
                   ELSE nCreated
    /\ nDeleted' = IF op = "delete" /\ ~c.raised /\ c.retOk THEN nDeleted + 1
                   ELSE nDeleted
    /\ UNCHANGED closeCalls

\* nothing but printing happened
Declined(entry) ==
    /\ last' = entry
    /\ pc' = "pause"
    /\ UNCHANGED <<conn, txn, committed, working, seq, faults, closeCalls,
                   nCreated, nDeleted>>

Init ==
    /\ pc = "start"
    /\ conn = "none"
    /\ txn = "idle"
    /\ committed = {}
    /\ working = {}
    /\ seq = 0
    /\ faults = MaxFaults
    /\ closeCalls = 0
    /\ nCreated = 0
    /\ nDeleted = 0
    /\ last = Idle

\* StudentDatabase.__init__, lines 40-53, called at lines 280-285
Connect ==
    /\ pc = "start"
    /\ \E ok \in BOOLEAN :
         /\ conn' = IF ok THEN "open" ELSE "none"
         /\ pc' = IF ok THEN "menu" ELSE "raised"
    /\ UNCHANGED <<txn, committed, working, seq, faults, closeCalls,
                   nCreated, nDeleted, last>>

\* choice "1"
ViewAll ==
    /\ pc = "menu"
    /\ \E f \in FaultPlans :
         /\ f.write = "ok" /\ f.commit = "ok" /\ f.rollback = "ok"
         /\ \E c \in {getAllStudents(Here, f)} :
              Planned(f) = c.injected /\ Served(c, Pass("1"), "list")

\* choice "2"
AddNew ==
    /\ pc = "menu"
    /\ seq < MaxSeq
    /\ \E first \in FirstNames, lastn \in LastNames, email \in Emails,
          date \in DateTexts :
         LET entry == [Pass("2") EXCEPT !.first = first, !.lastn = lastn,
                                        !.email = email, !.date = date]
         IN IF StrptimeOk(date)
            THEN \E f \in FaultPlans :
                   /\ f.read = "ok"
                   /\ \E c \in {addStudent(Here, first, lastn, email,
                                             PgDate(date), f)} :
                        Planned(f) = c.injected /\ Served(c, entry, "add")
            ELSE Declined(entry)

\* choice "3"
UpdateEmail ==
    /\ pc = "menu"
    /\ \E idText \in IdTexts :
         IF IntParses(idText)
         THEN \E new_email \in Emails, f \in FaultPlans :
                LET entry == [Pass("3") EXCEPT !.idText = idText,
                                               !.email = new_email]
                IN \E c \in {updateStudentEmail(Here, IntValue(idText),
                                                new_email, f)} :
                     Planned(f) = c.injected /\ Served(c, entry, "update")
         ELSE Declined([Pass("3") EXCEPT !.idText = idText])

\* choice "4"
DeleteOne ==
    /\ pc = "menu"
    /\ \E idText \in IdTexts :
         IF IntParses(idText)
         THEN \E confirm \in ConfirmTexts :
                LET entry == [Pass("4") EXCEPT !.idText = idText,
                                               !.confirm = confirm]
                IN IF DeleteConfirmed(confirm)
                   THEN \E f \in FaultPlans :
                          \E c \in {deleteStudent(Here, IntValue(idText),
                                                   f)} :
                             /\ Planned(f) = c.injected
                             /\ Served(c, entry, "delete")
                   ELSE Declined(entry)
         ELSE Declined([Pass("4") EXCEPT !.idText = idText])

\* choice "5": break
ExitChosen ==
    /\ pc = "menu"
    /\ last' = Pass("5")
    /\ pc' = "break"
    /\ UNCHANGED <<conn, txn, committed, working, seq, faults, closeCalls,
                   nCreated, nDeleted>>

\* any other choice
InvalidChoice ==
    /\ pc = "menu"
    /\ \E choice \in ChoiceTexts \ {"1", "2", "3", "4", "5"} :
         Declined(Pass(choice))

\* input("Press Enter to continue..."), then the menu is shown again
Continue ==
    /\ pc = "pause"
    /\ pc' = "menu"
    /\ last' = Idle
    /\ UNCHANGED <<conn, txn, committed, working, seq, faults, closeCalls,
                   nCreated, nDeleted>>

\* StudentDatabase.close(), called after the loop
Close ==
    /\ pc = "break"
    /\ conn' = "closed"
    /\ txn' = "idle"
    /\ working' = committed
    /\ closeCalls' = closeCalls + 1
    /\ pc' = "returned"
    /\ UNCHANGED <<committed, seq, faults, nCreated, nDeleted, last>>

\* except Exception around the whole of main's work
OuterExcept ==
    /\ pc = "raised"
    /\ pc' = "returned"
    /\ UNCHANGED <<conn, txn, committed, working, seq, faults, closeCalls,
                   nCreated, nDeleted, last>>

Next ==
    \/ Connect
    \/ ViewAll
    \/ AddNew
    \/ UpdateEmail
    \/ DeleteOne
    \/ ExitChosen
    \/ InvalidChoice
    \/ Continue
    \/ Close
    \/ OuterExcept

Spec == Init /\ [][Next]_vars

----------------------------------------------------------------------------
(* Properties *)

Mutating == {"add", "update", "delete"}

Issued(op) == \E i \in DOMAIN last.trace : last.trace[i].op = op

Failed(op) == \E i \in DOMAIN last.trace :
                  last.trace[i].op = op /\ ~last.trace[i].ok

Succeeded(op) == \E i \in DOMAIN last.trace :
                     last.trace[i].op = op /\ last.trace[i].ok

Count(op) == Cardinality({ i \in DOMAIN last.trace : last.trace[i].op = op })

EnteredId == IntValue(last.idText)

\* C1: a create that returns an identifier leaves exactly one committed
\* record with that identifier, carrying the inserted first name, last name,
\* email and enrollment date, and the identifier belonged to no record that
\* was in the store before the call.
C1_CreateStoresRecord ==
    (last.op = "add" /\ last.retId # <<>>) =>
        LET id == last.retId[1]
            found == { r \in committed : r.id = id }
        IN /\ Cardinality(found) = 1
           /\ \A r \in found :
                /\ r.first = last.first
                /\ r.last = last.lastn
                /\ r.email = last.email
                /\ r.date = <<last.date.y, last.date.m, last.date.d>>
           /\ \A r \in last.pre : r.id # id

C1_Witness ==
    /\ last.op = "add"
    /\ last.retId # <<>>
    /\ last.pre # {}
    /\ last.first = "Bob"

\* C2: a create whose email is already the email of a stored student returns
\* no identifier and leaves the committed records as they were.
C2_DuplicateEmailRejected ==
    (last.op = "add" /\ \E r \in last.pre : r.email = last.email) =>
        /\ last.retId = <<>>
        /\ committed = last.pre

C2_Witness ==
    /\ last.op = "add"
    /\ \E r \in last.pre : r.email = last.email
    /\ last.trace = <<Ev("write", FALSE), Ev("rollback", TRUE)>>
    /\ faults = MaxFaults
    /\ pc = "pause"

\* C3: updateEmail and deleteById on an identifier that no record has never
\* report success, execute no UPDATE or DELETE and leave the records as they
\* were; when the lookup itself ran, the call does nothing else and returns
\* False.
C3_MissingIdNoWrite ==
    (last.op \in {"update", "delete"}
       /\ \A r \in last.pre : r.id # EnteredId) =>
        /\ ~last.retOk
        /\ ~Issued("write")
        /\ committed = last.pre
        /\ Succeeded("read") =>
             (last.trace = <<Ev("read", TRUE)>> /\ ~last.raised)

C3_Witness ==
    /\ last.op = "delete"
    /\ last.pre # {}
    /\ \A r \in last.pre : r.id # EnteredId
    /\ last.trace = <<Ev("read", TRUE)>>
    /\ pc = "pause"

Ascending(rows) ==
    \A i \in 1..Len(rows) : \A j \in 1..Len(rows) :
        i < j => rows[i].id < rows[j].id

\* C4 as stated: whatever came before, listAll returns exactly N-M records,
\* N the creates and M the deletes that succeeded, in strictly ascending
\* order of identifier.
C4_ListCountsAlways ==
    last.op = "list" =>
        /\ Len(last.rows) = nCreated - nDeleted
        /\ Ascending(last.rows)

\* C4 amended: a listAll whose query ran returns exactly N-M records in
\* strictly ascending order of identifier, and they are the committed
\* records; a listAll whose query raised returns the empty sequence.
C4_ListCounts ==
    last.op = "list" =>
        IF last.trace = <<Ev("read", TRUE)>>
        THEN /\ Len(last.rows) = nCreated - nDeleted
             /\ Ascending(last.rows)
             /\ { last.rows[i] : i \in 1..Len(last.rows) } = committed
        ELSE last.rows = <<>>

C4_Witness ==
    /\ last.op = "list"
    /\ last.trace = <<Ev("read", TRUE)>>
    /\ Len(last.rows) = 2
    /\ nDeleted >= 1

\* C5: no two students share an email or an identifier; an updateEmail of
\* an existing student to an email that a different student has does not
\* succeed, issues a rollback and leaves every record as it was, and it
\* returns False whenever the rollback went through.
C5_EmailAndIdUnique ==
    /\ \A r1 \in committed : \A r2 \in committed :
          (r1.email = r2.email \/ r1.id = r2.id) => r1 = r2
    /\ (/\ last.op = "update"
        /\ \E r \in last.pre : r.id = EnteredId
        /\ \E r \in last.pre : r.email = last.email /\ r.id # EnteredId) =>
          /\ ~last.retOk
          /\ Issued("rollback")
          /\ committed = last.pre
          /\ Succeeded("rollback") => ~last.raised /\ txn = "idle"

C5_Witness ==
    /\ last.op = "update"
    /\ \E r \in last.pre : r.id = EnteredId
    /\ \E r \in last.pre : r.email = last.email /\ r.id # EnteredId
    /\ last.trace = <<Ev("read", TRUE), Ev("write", FALSE),
                      Ev("rollback", TRUE)>>
    /\ faults = MaxFaults

\* C6 as stated: every mutating call first verifies its precondition with a
\* read, never issues both a commit and a rollback, and follows a write by
\* exactly one of the two.
C6_TwoPhaseAsStated ==
    last.op \in Mutating =>
        /\ last.trace # <<>> /\ last.trace[1].op = "read"
        /\ ~(Issued("commit") /\ Issued("rollback"))
        /\ Issued("write") => Count("commit") + Count("rollback") = 1

\* C6 amended: updateEmail and deleteById look the row up with a read before
\* they write and write only when the read found it; create writes without a
\* read.  A call issues at most one write, one commit and one rollback; a
\* write that ran is followed by a commit; a rollback is issued exactly when
\* the read, the write or the commit raised, so that commit and rollback are
\* both issued exactly when the commit itself raised.
C6_TwoPhase ==
    last.op \in Mutating =>
        /\ last.trace # <<>>
        /\ last.op \in {"update", "delete"} =>
             /\ last.trace[1].op = "read"
             /\ Count("read") = 1
             /\ Issued("write") =>
                  /\ last.trace[1].ok
                  /\ \E r \in last.pre : r.id = EnteredId
        /\ last.op = "add" =>
             /\ Count("read") = 0
             /\ last.trace[1].op = "write"
        /\ Count("write") <= 1
        /\ Count("commit") <= 1
        /\ Count("rollback") <= 1
        /\ Issued("commit") <=> Succeeded("write")
        /\ Issued("rollback") <=>
             (Failed("read") \/ Failed("write") \/ Failed("commit"))
        /\ (Issued("commit") /\ Issued("rollback")) <=> Failed("commit")

C6_Witness ==
    /\ last.op = "update"
    /\ last.trace = <<Ev("read", TRUE), Ev("write", TRUE),
                      Ev("commit", FALSE), Ev("rollback", TRUE)>>
    /\ pc = "pause"

\* C7: no data-access operation that failed with a driver error leaves the
\* connection's transaction aborted when the shell is back at the menu.
C7_NotLeftAborted ==
    pc \in {"menu", "pause"} => txn # "aborted"

\* C8: once the loop has been entered it is left only by choice 5.
C8_OnlyExitLeavesLoop ==
    (conn # "none" /\ pc \notin {"menu", "pause"}) => last.choice = "5"

\* C9: the shell calls create only for a date that parses, updateEmail and
\* deleteById only for an identifier that parses as an integer, deleteById
\* only for the answer "yes"; where a local check fails no data-access
\* operation is called and the shell is back at the menu.
C9_LocalChecksFirst ==
    /\ last.op = "add" =>
         (last.choice = "2" /\ last.date.sep = "-"
            /\ last.date.m \in 1..12
            /\ last.date.d \in 1..DaysIn(last.date.y, last.date.m))
    /\ last.op = "update" =>
         (last.choice = "3" /\ last.idText # <<>>
            /\ \A i \in DOMAIN last.idText : DigitValue(last.idText[i]) >= 0)
    /\ last.op = "delete" =>
         (last.choice = "4" /\ last.idText # <<>>
            /\ \A i \in DOMAIN last.idText : DigitValue(last.idText[i]) >= 0
            /\ StripLower(last.confirm) = "yes")
    /\ (\/ last.choice = "2" /\ ~StrptimeOk(last.date)
        \/ last.choice \in {"3", "4"} /\ ~IntParses(last.idText)
        \/ last.choice = "4" /\ StripLower(last.confirm) # "yes") =>
          /\ last.op = "none"
          /\ last.trace = <<>>
          /\ committed = last.pre
          /\ pc = "pause"

C9_Witness ==
    /\ last.choice = "4"
    /\ IntParses(last.idText)
    /\ \E r \in committed : r.id = EnteredId
    /\ last.confirm = "no"
    /\ last.op = "none"

\* C10: when main has returned after a successful connect, close() has been
\* called exactly once, and no data-access operation follows close().
C10_ClosedOnce ==
    /\ (pc = "returned" /\ conn # "none") => closeCalls = 1
    /\ closeCalls <= 1
    /\ closeCalls = 1 => (pc = "returned" /\ conn = "closed")

====
